---- MODULE Spec2Model ----
(***************************************************************************)
(* Volume and pollutant-load routing of swmmnetwork.SwmmNetwork            *)
(* (src/swmmnetwork/swmmnetwork.py): the edge aggregator sum_edge_attr,    *)
(* safe_divide, SwmmNetwork.solve and the memoized results property.       *)
(*                                                                         *)
(* Numbers are exact rationals [n, d] (d > 0, lowest terms); Python's      *)
(* float rounding is not modelled.  Identifiers that the code searches for *)
(* flags (edge ids, str(node)) are sequences of one-character strings, so  *)
(* that `flag in key` is a real substring test.  Attribute dictionaries    *)
(* are functions from key strings to values; a missing key is a key that   *)
(* is not in the DOMAIN.  Every edge carries name_col and vol_col, as the  *)
(* code requires (it indexes both without a default).                      *)
(***************************************************************************)
EXTENDS Integers, Sequences, FiniteSets, TLC

VARIABLES
    node,       \* self.node: node id -> attribute dict
    edges,      \* the multi-edges in insertion order: [from, to, data]
    treated,    \* self.treated
    load_cols,  \* self.load_cols
    kwargs,     \* **kwargs of __init__, handed on to the graph constructor
    _results,   \* self._results (None or the table of the last finished solve)
    status,     \* "new" | "running" | "returned" | "raised": the last solve call
    order,      \* the nodes the running topological iteration has yielded, in the order solve processed them
    caller,     \* who started the last solve: "solve" (explicit call) or "results" (the property)
    api,        \* the last public entry point called: "none" | "solve" | "results" | "sum_edge_attr"
    ret,        \* the value the last returning call handed back
    solves,     \* number of times solve has been entered
    err,        \* the exception the last solve raised ("" when none)
    pre,        \* the graph as it was when the last solve was entered
    iters,      \* per node, the (vol_out, vol_treated) locals of each load-type iteration of the last visit
    q           \* the last sum_edge_attr call: its arguments and its value

vars == <<node, edges, treated, load_cols, kwargs, _results, status, order,
          caller, api, ret, solves, err, pre, iters, q>>

-----------------------------------------------------------------------------
(* Bounds of the model *)

MaxVol == 1

MaxLoad == 1

MaxSolves == 2

-----------------------------------------------------------------------------
(* Exact arithmetic *)

Abs(i) == IF i < 0 THEN -i ELSE i

RECURSIVE Gcd(_, _)
Gcd(a, b) == IF b = 0 THEN a ELSE Gcd(b, a % b)

Norm(n, d) ==
    LET s == IF d < 0 THEN -1 ELSE 1
        g == Gcd(Abs(n), Abs(d))
    IN  [n |-> (s * n) \div g, d |-> (s * d) \div g]

R(i) == [n |-> i, d |-> 1]
Frac(a, b) == Norm(a, b)
Zero == R(0)
One == R(1)
Hundred == R(100)

RAdd(x, y) == Norm(x.n * y.d + y.n * x.d, x.d * y.d)
RSub(x, y) == Norm(x.n * y.d - y.n * x.d, x.d * y.d)
RMul(x, y) == Norm(x.n * y.n, x.d * y.d)
\* x / y for y # 0 (Python raises ZeroDivisionError otherwise; the callers check)
RDiv(x, y) == Norm(x.n * y.d, x.d * y.n)
IsZero(x) == x.n = 0
RPos(x) == x.n > 0

-----------------------------------------------------------------------------
(* Dictionaries, optional arguments, substring search *)

EmptyDict == [k \in {} |-> Zero]
Get(d, k, default) == IF k \in DOMAIN d THEN d[k] ELSE default
Put(d, k, v) == [x \in (DOMAIN d) \cup {k} |-> IF x = k THEN v ELSE d[x]]

None == <<>>
Some(v) == <<v>>

\* Python's `flag in key` on strings
IsSubstr(flag, key) ==
    \E i \in 1..(Len(key) - Len(flag) + 1) :
        SubSeq(key, i, i + Len(flag) - 1) = flag

\* any([i in key for i in flags])
AnyIn(flags, key) == \E i \in 1..Len(flags) : IsSubstr(flags[i], key)

-----------------------------------------------------------------------------
(* Configuration defaults of SwmmNetwork.__init__ *)

name_col == "id"
vol_col == "volume"
treated_flags == << <<"T", "R">> >>
vol_reduced_flags == << <<"I", "N", "F">>, <<"H", "U">> >>
outfall_flags == << <<"O", "F">> >>
\* the literal 0.7 of solve
RemovalLiteral == Frac(7, 10)

-----------------------------------------------------------------------------
(* Edge views of the MultiDiGraph and the edge aggregator *)

Indices(s) == [i \in 1..Len(s) |-> i]

in_edges(G, n) == SelectSeq(Indices(G.edges), LAMBDA i : G.edges[i].to = n)
out_edges(G, n) == SelectSeq(Indices(G.edges), LAMBDA i : G.edges[i].from = n)

\* variant: `edges` reports the incoming and the outgoing edges
EdgeView_Both(G, method, n) ==
    CASE method = "in_edges" -> in_edges(G, n)
      [] method = "out_edges" -> out_edges(G, n)
      [] method = "edges" -> in_edges(G, n) \o out_edges(G, n)

\* getattr(G, method)(node, data=True); on a directed graph `edges` reports
\* the out-edges (the docstring's NOTE)
EdgeView(G, method, n) ==
    CASE method = "in_edges" -> in_edges(G, n)
      [] method = "out_edges" -> out_edges(G, n)
      [] method = "edges" -> out_edges(G, n)

\* variant: an edge that matches an include flag is counted whatever the
\* exclude flags are
EdgeTerm_IncludeWins(data, attr, filter_key, include_filter_flags, exclude_filter_flags) ==
    IF filter_key # None
    THEN LET key == data[filter_key[1]] IN
         IF include_filter_flags # None
         THEN IF AnyIn(include_filter_flags[1], key)
              THEN Get(data, attr, Zero)
              ELSE Zero
         ELSE IF exclude_filter_flags # None
              THEN IF ~AnyIn(exclude_filter_flags[1], key)
                   THEN Get(data, attr, Zero)
                   ELSE Zero
              ELSE Get(data, attr, Zero)
    ELSE Get(data, attr, Zero)

\* what one pass of the loop body adds to val
EdgeTerm(data, attr, filter_key, include_filter_flags, exclude_filter_flags) ==
    IF filter_key # None
    THEN LET key == data[filter_key[1]] IN
         IF include_filter_flags # None
         THEN IF AnyIn(include_filter_flags[1], key)
              THEN IF exclude_filter_flags # None
                   THEN IF ~AnyIn(exclude_filter_flags[1], key)
                        THEN Get(data, attr, Zero)
                        ELSE Zero
                   ELSE Get(data, attr, Zero)
              ELSE Zero
         ELSE IF exclude_filter_flags # None
              THEN IF ~AnyIn(exclude_filter_flags[1], key)
                   THEN Get(data, attr, Zero)
                   ELSE Zero
              ELSE Get(data, attr, Zero)
    ELSE Get(data, attr, Zero)

RECURSIVE SumLoop(_, _, _, _, _, _, _, _)
SumLoop(G, view, k, val, attr, filter_key, inc, exc) ==
    IF k > Len(view) THEN val
    ELSE SumLoop(G, view, k + 1,
                 RAdd(val, EdgeTerm(G.edges[view[k]].data, attr, filter_key, inc, exc)),
                 attr, filter_key, inc, exc)

sum_edge_attr(G, n, attr, method, filter_key, include_filter_flags, exclude_filter_flags) ==
    SumLoop(G, EdgeView(G, method, n), 1, Zero, attr, filter_key,
            include_filter_flags, exclude_filter_flags)

safe_divide(x, y) == IF IsZero(y) THEN Zero ELSE RDiv(x, y)

-----------------------------------------------------------------------------
(* SwmmNetwork.solve: the body of the loop over nx.topological_sort(self).  *)
(* A solve state st is [node, edges, err, iters]: the graph as mutated so   *)
(* far, the exception raised ("" when none) and the locals observed.        *)

vol_out_col == vol_col \o "_out"
vol_red_col == vol_col \o "_reduced"
vol_tmnt_col == vol_col \o "_treated"
pct_vol_tmnt_col == vol_col \o "_pct_treated"
pct_vol_red_col == vol_col \o "_pct_reduced"
vol_cap_col == vol_col \o "_capture"
pct_vol_cap_col == vol_col \o "_pct_capture"
vol_pct_diff_col == vol_col \o "_pct_diff"
ck_vol_col == "_ck_" \o vol_col

conc_col(load_col) == load_col \o "_conc"
load_out_col(load_col) == load_col \o "_out"
load_red_col(load_col) == load_col \o "_reduced"
pct_load_red_col(load_col) == load_col \o "_pct_reduced"

SetNode(st, n, k, v) == [st EXCEPT !.node[n] = Put(st.node[n], k, v)]

\* variant: the treated load is written on every link, flagged or not
EdgeLoad_TreatAll(data, conc_in, is_treated) ==
    IF is_treated
    THEN RMul(RMul(RSub(One, RemovalLiteral), conc_in), data[vol_col])
    ELSE RMul(conc_in, data[vol_col])

\* the load written on an out-edge: conc_in * volume, then, on a treated
\* link, overwritten with ((1 - 0.7) * conc_in) * volume
EdgeLoad(data, conc_in, is_treated) ==
    IF is_treated /\ AnyIn(treated_flags, data[name_col])
    THEN RMul(RMul(RSub(One, RemovalLiteral), conc_in), data[vol_col])
    ELSE RMul(conc_in, data[vol_col])

\* the denominator of the percent difference printed when an edge already
\* carries the load: data[load_col], divided by without a guard
OverwriteRaises(data, load_col) ==
    load_col \in DOMAIN data /\ IsZero(data[load_col])

\* for edge in self.out_edges(node, data=True), from the k-th edge on; the
\* print and the warning of an overwrite change no state, the division in
\* the print's argument can raise
RECURSIVE EdgeLoop(_, _, _, _, _, _)
EdgeLoop(st, view, k, load_col, conc_in, is_treated) ==
    IF k > Len(view) THEN st
    ELSE LET i == view[k]
             data == st.edges[i].data
         IN  IF OverwriteRaises(data, load_col)
             THEN [st EXCEPT !.err = "ZeroDivisionError"]
             ELSE EdgeLoop(
                    [st EXCEPT !.edges[i].data =
                        Put(data, load_col, EdgeLoad(data, conc_in, is_treated))],
                    view, k + 1, load_col, conc_in, is_treated)

\* variant: an outfall is accounted like any other node
NodeOut_NoOutfall(st, n, load_col, load_in, vol_in) ==
    IF RPos(load_in)
    THEN [load_out |-> sum_edge_attr(st, n, load_col, "out_edges", None, None, None),
          vol_out |-> sum_edge_attr(st, n, vol_col, "out_edges", Some(name_col),
                                    None, Some(vol_reduced_flags)),
          vol_treated |-> sum_edge_attr(st, n, vol_col, "out_edges", Some(name_col),
                                        Some(treated_flags), None)]
    ELSE [load_out |-> load_in, vol_out |-> vol_in, vol_treated |-> Zero]

\* load_out, vol_out, vol_treated of one load-type iteration, read after the
\* out-edges were written
NodeOut(st, n, load_col, load_in, vol_in) ==
    IF RPos(load_in)
    THEN IF AnyIn(outfall_flags, n)
         THEN [load_out |-> load_in, vol_out |-> vol_in, vol_treated |-> Zero]
         ELSE [load_out |-> sum_edge_attr(st, n, load_col, "out_edges", None, None, None),
               vol_out |-> sum_edge_attr(st, n, vol_col, "out_edges", Some(name_col),
                                         None, Some(vol_reduced_flags)),
               vol_treated |-> sum_edge_attr(st, n, vol_col, "out_edges", Some(name_col),
                                             Some(treated_flags), None)]
    ELSE [load_out |-> load_in, vol_out |-> vol_in, vol_treated |-> Zero]

\* the assignments that end one load-type iteration
StoreOut(st, n, load_col, load_in, vol_in, o) ==
    LET load_reduced == RSub(load_in, o.load_out)
        vol_reduced == RSub(vol_in, o.vol_out)
        s1 == SetNode(st, n, load_out_col(load_col), o.load_out)
        s2 == SetNode(s1, n, load_red_col(load_col), load_reduced)
        s3 == IF RPos(load_in)
              THEN SetNode(s2, n, pct_load_red_col(load_col),
                           RMul(Hundred, RDiv(load_reduced, load_in)))
              ELSE s2
        s4 == SetNode(s3, n, vol_out_col, o.vol_out)
        s5 == SetNode(s4, n, vol_red_col, vol_reduced)
        s6 == SetNode(s5, n, pct_vol_red_col, RMul(Hundred, RDiv(vol_reduced, vol_in)))
        s7 == SetNode(s6, n, vol_tmnt_col, o.vol_treated)
        s8 == SetNode(s7, n, pct_vol_tmnt_col, RMul(Hundred, RDiv(o.vol_treated, vol_in)))
        s9 == SetNode(s8, n, vol_cap_col, RAdd(o.vol_treated, vol_reduced))
    IN  SetNode(s9, n, pct_vol_cap_col,
                RMul(Hundred, RDiv(RAdd(o.vol_treated, vol_reduced), vol_in)))

\* for load_col in self.load_cols, from the k-th load type on
RECURSIVE LoadLoop(_, _, _, _, _, _)
LoadLoop(st, n, vol_in, cols, k, is_treated) ==
    IF k > Len(cols) THEN st
    ELSE LET load_col == cols[k]
             load_in == RAdd(sum_edge_attr(st, n, load_col, "in_edges", None, None, None),
                             Get(st.node[n], load_col, Zero))
             conc_in == safe_divide(load_in, vol_in)
             s1 == SetNode(SetNode(st, n, load_col, load_in), n, conc_col(load_col), conc_in)
             s2 == IF RPos(load_in)
                   THEN EdgeLoop(s1, out_edges(s1, n), 1, load_col, conc_in, is_treated)
                   ELSE s1
         IN  IF s2.err # ""
             THEN s2
             ELSE LET o == NodeOut(s2, n, load_col, load_in, vol_in)
                      s3 == StoreOut(s2, n, load_col, load_in, vol_in, o)
                      s4 == [s3 EXCEPT !.iters =
                                Append(@, [vol_out |-> o.vol_out,
                                           vol_treated |-> o.vol_treated])]
                  IN  LoadLoop(s4, n, vol_in, cols, k + 1, is_treated)

\* one pass of the loop over the topological order, for node n
SolveNode(G, n, cols, is_treated) ==
    LET st == [node |-> G.node, edges |-> G.edges, err |-> "", iters |-> <<>>]
        node_vol == Get(st.node[n], vol_col, Zero)
        vol_in == RAdd(sum_edge_attr(st, n, vol_col, "in_edges", None, None, None), node_vol)
        s1 == SetNode(st, n, vol_col, vol_in)
        check_vol == Get(s1.node[n], ck_vol_col, node_vol)
        vol_pct_diff == RMul(safe_divide(RSub(check_vol, vol_in), check_vol), Hundred)
        s2 == SetNode(s1, n, vol_pct_diff_col, vol_pct_diff)
    IN  IF ~IsZero(vol_in)
        THEN LoadLoop(s2, n, vol_in, cols, 1, is_treated)
        ELSE s2

-----------------------------------------------------------------------------
(* Result Assembler: nodes_to_df, edges_to_df and the table solve stores *)

NodeA == <<"A">>
NodeB == <<"B">>
NodeOF == <<"O", "F">>
\* G.nodes(), in insertion order
NodeOrder == <<NodeA, NodeB, NodeOF>>
Nodes == {NodeOrder[i] : i \in 1..Len(NodeOrder)}

\* character codes of the characters the identifiers use
Ord(c) ==
    CASE c = "1" -> 49 [] c = "A" -> 65 [] c = "B" -> 66 [] c = "F" -> 70
      [] c = "H" -> 72 [] c = "I" -> 73 [] c = "N" -> 78 [] c = "O" -> 79
      [] c = "P" -> 80 [] c = "R" -> 82 [] c = "T" -> 84 [] c = "U" -> 85

\* a < b for strings
RECURSIVE StrLess(_, _)
StrLess(a, b) ==
    IF b = <<>> THEN FALSE
    ELSE IF a = <<>> THEN TRUE
    ELSE IF Ord(Head(a)) # Ord(Head(b)) THEN Ord(Head(a)) < Ord(Head(b))
    ELSE StrLess(Tail(a), Tail(b))

\* G.successors(n)
RECURSIVE Distinct(_)
Distinct(s) ==
    IF s = <<>> THEN <<>>
    ELSE LET d == Distinct(SubSeq(s, 1, Len(s) - 1))
             x == s[Len(s)]
         IN  IF \E i \in 1..Len(d) : d[i] = x THEN d ELSE Append(d, x)

successors(G, n) ==
    Distinct([k \in 1..Len(out_edges(G, n)) |-> G.edges[out_edges(G, n)[k]].to])

\* one row per node: id, from, to, type, then df.update(data)
nodes_to_df(G) ==
    [k \in 1..Len(NodeOrder) |->
        LET n == NodeOrder[k]
        IN  G.node[n] @@ ("id" :> n) @@ ("from" :> n)
              @@ ("to" :> successors(G, n)) @@ ("type" :> "node")]

\* one row per edge: from, to, type, then df.update(data)
edges_to_df(G) ==
    [k \in 1..Len(G.edges) |->
        G.edges[k].data @@ ("from" :> G.edges[k].from) @@ ("to" :> G.edges[k].to)
          @@ ("type" :> "link")]

\* .set_index('id').sort_index(): rows in ascending order of id, rows of
\* equal id in their order of concatenation
RECURSIVE SortRows(_)
SortRows(rows) ==
    IF rows = <<>> THEN <<>>
    ELSE LET x == rows[Len(rows)]
             srt == SortRows(SubSeq(rows, 1, Len(rows) - 1))
             before == SelectSeq(srt, LAMBDA r : ~StrLess(x["id"], r["id"]))
             after == SelectSeq(srt, LAMBDA r : StrLess(x["id"], r["id"]))
         IN  before \o <<x>> \o after

Table(G) == SortRows(nodes_to_df(G) \o edges_to_df(G))

-----------------------------------------------------------------------------
(* nx.topological_sort(self) *)

Graph == [node |-> node, edges |-> edges]

Preds(E, n) == {E[i].from : i \in {j \in 1..Len(E) : E[j].to = n}}

visited == {order[i] : i \in 1..Len(order)}

\* variant: the nodes are visited in any order, topological or not
Ready_Unordered(n) == n \notin visited

\* n can be yielded next: it was not yielded yet and every predecessor was
Ready(n) == n \notin visited /\ Preds(edges, n) \subseteq visited

RECURSIVE Peel(_, _)
Peel(E, S) ==
    LET r == {n \in Nodes \ S : Preds(E, n) \subseteq S}
    IN  IF r = {} THEN S ELSE Peel(E, S \cup r)

IsDAG(E) == Peel(E, {}) = Nodes

-----------------------------------------------------------------------------
(* The calls: solve(), the results property, sum_edge_attr *)

Config == <<treated, load_cols, kwargs>>

\* solve is entered (by a call, or by the property on an empty cache)
Enter(c) ==
    /\ status # "running"
    /\ solves < MaxSolves
    /\ status' = "running"
    /\ order' = <<>>
    /\ caller' = c
    /\ api' = c
    /\ solves' = solves + 1
    /\ err' = ""
    /\ pre' = Graph
    /\ iters' = <<>>
    /\ UNCHANGED <<node, edges, Config, _results, ret, q>>

CallSolve == Enter("solve")

\* variant: the property runs solve on every access
AccessResults_NoCache ==
    /\ status # "running"
    /\ Enter("results")

\* the results property: solve on an empty cache, the cached table otherwise
AccessResults ==
    /\ status # "running"
    /\ IF _results = None
       THEN Enter("results")
       ELSE /\ api' = "results"
            /\ ret' = _results
            /\ UNCHANGED <<node, edges, Config, _results, status, order,
                           caller, solves, err, pre, iters, q>>

\* topological_sort as a list (networkx 1.x): a cycle is found before the
\* loop body runs
TopoRaiseEager ==
    /\ status = "running"
    /\ order = <<>>
    /\ ~IsDAG(edges)
    /\ status' = "raised"
    /\ err' = "NetworkXUnfeasible"
    /\ UNCHANGED <<node, edges, Config, _results, order, caller, api, ret,
                   solves, pre, iters, q>>

\* the loop body for the next node of the order
Visit(n) ==
    /\ status = "running"
    /\ Ready(n)
    /\ LET r == SolveNode(Graph, n, load_cols, treated)
       IN  /\ node' = r.node
           /\ edges' = r.edges
           /\ iters' = r.iters
           /\ IF r.err = ""
              THEN /\ order' = Append(order, n)
                   /\ UNCHANGED <<status, err>>
              ELSE /\ status' = "raised"
                   /\ err' = r.err
                   /\ UNCHANGED order
    /\ UNCHANGED <<Config, _results, caller, api, ret, solves, pre, q>>

\* topological_sort as a generator (networkx 2.x): the cycle is found when
\* no node is left to yield
TopoRaiseLate ==
    /\ status = "running"
    /\ visited # Nodes
    /\ \A n \in Nodes : ~Ready(n)
    /\ status' = "raised"
    /\ err' = "NetworkXUnfeasible"
    /\ UNCHANGED <<node, edges, Config, _results, order, caller, api, ret,
                   solves, pre, iters, q>>

\* the order is exhausted: the table is assembled, stored and returned
Finish ==
    /\ status = "running"
    /\ visited = Nodes
    /\ _results' = Some(Table(Graph))
    /\ ret' = _results'
    /\ status' = "returned"
    /\ UNCHANGED <<node, edges, Config, order, caller, api, solves, err,
                   pre, iters, q>>

\* a call of sum_edge_attr on the network
CallSum(n, attr, method, filter_key, inc, exc) ==
    /\ status # "running"
    /\ api' = "sum_edge_attr"
    /\ q' = Some([node |-> n, attr |-> attr, method |-> method,
                  filter_key |-> filter_key, include |-> inc, exclude |-> exc,
                  val |-> sum_edge_attr(Graph, n, attr, method, filter_key, inc, exc)])
    /\ UNCHANGED <<node, edges, Config, _results, status, order, caller,
                   ret, solves, err, pre, iters>>

-----------------------------------------------------------------------------
(* The networks and configurations the model starts from *)

L1 == "load"
L2 == "tss"

EdgeIds == { <<"P", "1">>, <<"T", "R", "1">>, <<"I", "N", "F">> }

\* endpoints of the edges, in insertion order
Chain == << <<NodeA, NodeB>>, <<NodeB, NodeOF>> >>
Confluence == << <<NodeA, NodeOF>>, <<NodeB, NodeOF>> >>
Parallel == << <<NodeA, NodeB>>, <<NodeA, NodeB>> >>
Fork == << <<NodeA, NodeB>>, <<NodeA, NodeOF>> >>
\* an outfall with a link leaving it
Through == << <<NodeA, NodeOF>>, <<NodeOF, NodeB>> >>
\* a cycle, and a node of in-degree zero outside it
Cycle == << <<NodeB, NodeOF>>, <<NodeOF, NodeB>> >>

Shapes == {Chain, Confluence, Parallel, Fork, Through, Cycle}

\* a source attribute dict: a volume and loads, each absent when 0
Source(v, l1, l2) ==
    LET d0 == EmptyDict
        d1 == IF v = 0 THEN d0 ELSE Put(d0, vol_col, R(v))
        d2 == IF l1 = 0 THEN d1 ELSE Put(d1, L1, R(l1))
    IN  IF l2 = 0 THEN d2 ELSE Put(d2, L2, R(l2))

\* an edge with its id and volume and, when pl names a value, that load
MkEdge(ft, id, v, pl) ==
    LET d == Put(Put(EmptyDict, name_col, id), vol_col, R(v))
    IN  [from |-> ft[1], to |-> ft[2],
         data |-> IF pl = None THEN d ELSE Put(d, L1, R(pl[1]))]

\* __init__: the flags and columns keep their defaults but for treated,
\* load_cols and a removal_efficiency keyword
Default == [treated |-> TRUE, load_cols |-> <<L1>>, kwargs |-> EmptyDict]
Untreated == [Default EXCEPT !.treated = FALSE]
TwoLoads == [Default EXCEPT !.load_cols = <<L1, L2>>]
Efficiency == [Default EXCEPT !.kwargs = Put(EmptyDict, "removal_efficiency", Frac(1, 2))]

\* every shape under the default configuration, the other configurations
\* on the shapes that exercise them
Scenarios ==
    (Shapes \X {Default}) \cup ({Parallel} \X {Untreated})
      \cup ({Fork} \X {TwoLoads}) \cup ({Chain} \X {Efficiency})

\* volumes of the two edges: equal, or splitting MaxVol between them
VolPatterns ==
    {<<v, v>> : v \in 0..MaxVol} \cup {<<v, MaxVol - v>> : v \in 0..MaxVol}

\* B is a subcatchment exactly when it is a source of the shape
IsSource(sh, n) ==
    /\ \E i \in 1..Len(sh) : sh[i][1] = n
    /\ \A i \in 1..Len(sh) : sh[i][2] # n

InitWith(scenarios, pls, avs, als) ==
    \E sc \in scenarios :
    \E ids \in [1..Len(sc[1]) -> EdgeIds], vs \in VolPatterns :
    \E pl \in pls :
    \E av \in avs, al \in als :
    \E al2 \in IF Len(sc[2].load_cols) = 1 THEN {0} ELSE {0, MaxLoad} :
        /\ node = [n \in Nodes |->
                     IF n = NodeA THEN Source(av, al, al2)
                     ELSE IF n = NodeB /\ IsSource(sc[1], n)
                          THEN Source(MaxVol, MaxLoad, 0)
                          ELSE EmptyDict]
        /\ edges = [i \in 1..Len(sc[1]) |->
                      MkEdge(sc[1][i], ids[i], vs[i], IF i = 1 THEN pl ELSE None)]
        /\ treated = sc[2].treated
        /\ load_cols = sc[2].load_cols
        /\ kwargs = sc[2].kwargs
        /\ _results = None
        /\ status = "new"
        /\ order = <<>>
        /\ caller = "none"
        /\ api = "none"
        /\ ret = None
        /\ solves = 0
        /\ err = ""
        /\ pre = [node |-> node, edges |-> edges]
        /\ iters = <<>>
        /\ q = None

Init == InitWith(Scenarios, {None, Some(0)}, 0..MaxVol, 0..MaxLoad)

Next ==
    \/ CallSolve
    \/ AccessResults
    \/ TopoRaiseEager
    \/ \E n \in Nodes : Visit(n)
    \/ TopoRaiseLate
    \/ Finish

Spec == Init /\ [][Next]_vars

\* sum_edge_attr as a function of its arguments: the networks of two
\* shapes, queried with every method and with flag lists that overlap
SumScenarios == {Parallel, Through} \X {Default}

Methods == {"edges", "in_edges", "out_edges"}
IncludeChoices == {None, Some(treated_flags), Some(<< <<"1">> >>)}
ExcludeChoices == {None, Some(vol_reduced_flags), Some(treated_flags)}
\* filter_key, include_filter_flags, exclude_filter_flags
FilterChoices ==
    {<<None, None, None>>} \cup ({Some(name_col)} \X IncludeChoices \X ExcludeChoices)

InitSum == InitWith(SumScenarios, {Some(MaxLoad)}, {MaxVol}, {MaxLoad})

NextSum ==
    \E n \in Nodes, attr \in {vol_col, L1}, method \in Methods, f \in FilterChoices :
        CallSum(n, attr, method, f[1], f[2], f[3])

SpecSum == InitSum /\ [][NextSum]_vars

-----------------------------------------------------------------------------
(* Vocabulary of the properties *)

Returned == status = "returned"

Has(n, k) == k \in DOMAIN node[n]

IsOutfall(n) == AnyIn(outfall_flags, n)

OutIdx(n) == {i \in 1..Len(edges) : edges[i].from = n}
InIdx(n) == {i \in 1..Len(edges) : edges[i].to = n}

EdgeId(i) == edges[i].data[name_col]
IsTreatedLink(i) == AnyIn(treated_flags, EdgeId(i))
IsReducedLink(i) == AnyIn(vol_reduced_flags, EdgeId(i))

\* the sum of f over the finite set S
RECURSIVE SumOver(_, _)
SumOver(S, f) ==
    IF S = {} THEN Zero
    ELSE LET x == CHOOSE y \in S : TRUE
         IN  RAdd(f[x], SumOver(S \ {x}, f))

OutVolume(n) == SumOver(OutIdx(n), [i \in OutIdx(n) |-> edges[i].data[vol_col]])

Cols == {load_cols[k] : k \in 1..Len(load_cols)}

\* solve stored inflow and outflow of n, and they agree
StoredPassThrough(n) ==
    /\ Has(n, vol_out_col)
    /\ node[n][vol_out_col] = node[n][vol_col]
    /\ \A c \in Cols :
         /\ Has(n, c)
         /\ Has(n, load_out_col(c))
         /\ node[n][load_out_col(c)] = node[n][c]

\* a node with inflow that is no outfall and has no treated or
\* volume-reduced link leaving it
Unflagged(n) ==
    /\ Has(n, vol_col)
    /\ ~IsZero(node[n][vol_col])
    /\ ~IsOutfall(n)
    /\ \A i \in OutIdx(n) : ~IsTreatedLink(i) /\ ~IsReducedLink(i)

-----------------------------------------------------------------------------
(* C1 *)

\* C1 as stated: after solve, every node with non-zero inflow volume that is
\* no outfall and has no treated or volume-reduced out-edge stores
\* vol_out = vol_in and load_out = load_in for every load type.
C1_ConservationAsStated ==
    Returned => \A n \in Nodes : Unflagged(n) => StoredPassThrough(n)

\* C1 (amended): the same, for the nodes whose out-edge volumes sum to the
\* inflow volume.
C1_Conservation ==
    Returned =>
        \A n \in Nodes :
            (Unflagged(n) /\ OutVolume(n) = node[n][vol_col]) => StoredPassThrough(n)

\* a solved network with such a node that carries load onto its out-edges
C1_Witness ==
    /\ Returned
    /\ \E n \in Nodes :
         /\ Unflagged(n)
         /\ OutVolume(n) = node[n][vol_col]
         /\ OutIdx(n) # {}
         /\ \E c \in Cols : Has(n, c) /\ RPos(node[n][c])

-----------------------------------------------------------------------------
(* C2 *)

StoredTerminal(n) ==
    /\ StoredPassThrough(n)
    /\ Has(n, vol_tmnt_col)
    /\ node[n][vol_tmnt_col] = Zero

\* C2 as stated: after solve, every outfall node stores load_out = load_in
\* for every load type, vol_out = vol_in and vol_treated = 0, whatever its
\* out-edges are.
C2_OutfallAsStated ==
    Returned => \A n \in Nodes : IsOutfall(n) => StoredTerminal(n)

\* C2 (amended): the same, for the outfall nodes with non-zero inflow volume
\* (solve stores nothing of the kind on a node whose inflow volume is 0).
C2_Outfall ==
    Returned =>
        \A n \in Nodes :
            (IsOutfall(n) /\ ~IsZero(node[n][vol_col])) => StoredTerminal(n)

\* a solved outfall with inflow load and a treated or volume-reduced link
\* with volume leaving it
C2_Witness ==
    /\ Returned
    /\ \E n \in Nodes :
         /\ IsOutfall(n)
         /\ ~IsZero(node[n][vol_col])
         /\ RPos(node[n][L1])
         /\ \E i \in OutIdx(n) :
              /\ IsTreatedLink(i) \/ IsReducedLink(i)
              /\ ~IsZero(edges[i].data[vol_col])

-----------------------------------------------------------------------------
(* C3 *)

removal_efficiency == Get(kwargs, "removal_efficiency", Frac(7, 10))

\* C3: after solve, every out-edge of a node with positive inflow load
\* carries (1 - removal_efficiency) * conc_in * volume when treatment is
\* enabled and its id has a treated flag, and conc_in * volume otherwise,
\* for the configured removal efficiency.
C3_TreatmentBound ==
    Returned =>
        \A n \in Nodes : \A c \in Cols :
            (Has(n, vol_col) /\ ~IsZero(node[n][vol_col]) /\ RPos(node[n][c])) =>
                \A i \in OutIdx(n) :
                    /\ c \in DOMAIN edges[i].data
                    /\ edges[i].data[c] =
                         IF treated /\ IsTreatedLink(i)
                         THEN RMul(RMul(RSub(One, removal_efficiency), node[n][conc_col(c)]),
                                   edges[i].data[vol_col])
                         ELSE RMul(node[n][conc_col(c)], edges[i].data[vol_col])

-----------------------------------------------------------------------------
(* C4 *)

\* C4: on an acyclic network no division of solve raises.
C4_NoDivisionError == IsDAG(pre.edges) => err # "ZeroDivisionError"

-----------------------------------------------------------------------------
(* C5 *)

\* C5: when solve fails on a cycle, no node attribute and no edge attribute
\* differs from its value before the call.
C5_FailBeforeMutation ==
    (status = "raised" /\ err = "NetworkXUnfeasible") =>
        (node = pre.node /\ edges = pre.edges)

-----------------------------------------------------------------------------
(* C6 *)

\* the edges a filtered call counts: in the direction asked, with an include
\* flag in the filter value when include flags are given, and with no
\* exclude flag in it when exclude flags are given
Direction(c) == IF c.method = "in_edges" THEN InIdx(c.node) ELSE OutIdx(c.node)

Counted(c) ==
    {i \in Direction(c) :
        /\ c.include = None \/ AnyIn(c.include[1], edges[i].data[c.filter_key[1]])
        /\ c.exclude = None \/ ~AnyIn(c.exclude[1], edges[i].data[c.filter_key[1]])}

\* C6: a call with a filter key, for the incoming or the outgoing edges,
\* returns the sum of the attribute (0 where absent) over exactly the edges
\* of that direction that match an include flag (when given) and no exclude
\* flag (when given); 0 when there is no edge.
C6_FilteredSum ==
    (q # None /\ q[1].filter_key # None /\ q[1].method \in {"in_edges", "out_edges"}) =>
        q[1].val = SumOver(Counted(q[1]),
                           [i \in Counted(q[1]) |-> Get(edges[i].data, q[1].attr, Zero)])

\* a call with both flag lists where an edge of the direction matches both,
\* carries the attribute, and another edge is counted
C6_Witness ==
    /\ q # None
    /\ q[1].filter_key # None /\ q[1].include # None /\ q[1].exclude # None
    /\ q[1].method \in {"in_edges", "out_edges"}
    /\ \E i \in Direction(q[1]) :
         /\ AnyIn(q[1].include[1], EdgeId(i))
         /\ AnyIn(q[1].exclude[1], EdgeId(i))
         /\ ~IsZero(Get(edges[i].data, q[1].attr, Zero))
    /\ ~IsZero(q[1].val)

-----------------------------------------------------------------------------
(* C7 *)

AllCounted(S, c) ==
    {i \in S :
        c.filter_key = None \/
        ( /\ c.include = None \/ AnyIn(c.include[1], edges[i].data[c.filter_key[1]])
          /\ c.exclude = None \/ ~AnyIn(c.exclude[1], edges[i].data[c.filter_key[1]]) )}

SumOfCounted(S, c) ==
    SumOver(AllCounted(S, c), [i \in AllCounted(S, c) |-> Get(edges[i].data, c.attr, Zero)])

\* C7 as stated: with the default method 'edges' the result is the incoming
\* result plus the outgoing result.
C7_BothAsStated ==
    (q # None /\ q[1].method = "edges") =>
        q[1].val = RAdd(SumOfCounted(InIdx(q[1].node), q[1]),
                        SumOfCounted(OutIdx(q[1].node), q[1]))

\* C7 (amended): with the default method 'edges' on the directed network
\* the result is the outgoing result alone; 'in_edges' gives the incoming
\* and 'out_edges' the outgoing result.
C7_Direction ==
    q # None =>
        q[1].val = SumOfCounted(IF q[1].method = "in_edges"
                                THEN InIdx(q[1].node) ELSE OutIdx(q[1].node), q[1])

\* a call with method 'edges' at a node with volume on an incoming and on an
\* outgoing edge
C7_Witness ==
    /\ q # None
    /\ q[1].method = "edges" /\ q[1].attr = vol_col /\ q[1].filter_key = None
    /\ ~IsZero(SumOfCounted(InIdx(q[1].node), q[1]))
    /\ ~IsZero(q[1].val)

-----------------------------------------------------------------------------
(* C8 *)

\* C8: an access to results on an empty cache enters solve, once; an access
\* on a filled cache returns the cached table and changes neither the graph
\* nor the cache nor the number of solve runs; the graph changes only while
\* a solve runs; a filled cache is replaced only by a solve that was called
\* explicitly, and by the table of the graph as that solve left it.
C8_Memoized ==
    [][ /\ (AccessResults /\ _results = None) =>
              (solves' = solves + 1 /\ status' = "running" /\ caller' = "results")
        /\ (AccessResults /\ _results # None) =>
              (ret' = _results /\ UNCHANGED <<node, edges, _results, solves, status>>)
        /\ (node' # node \/ edges' # edges) => status = "running"
        /\ (_results' # _results) =>
              /\ status = "running" /\ status' = "returned"
              /\ _results' = Some(Table([node |-> node', edges |-> edges']))
              /\ _results # None => caller = "solve"
      ]_vars

\* the cache was filled, a later explicit solve replaced it, and results was
\* read after that from the cache
C8_Witness ==
    /\ Returned
    /\ solves = 2
    /\ caller = "solve"
    /\ api = "results"
    /\ ret = _results
    /\ _results # None

-----------------------------------------------------------------------------
(* C9 *)

\* C9: the volume locals of the per-load-type loop (vol_out, vol_treated,
\* and with them the reduced and captured volumes and the percentages) are
\* the same in every iteration at a node.
C9_IterationsAgree == \A i, j \in 1..Len(iters) : iters[i] = iters[j]

-----------------------------------------------------------------------------
(* C10 *)

\* the first node of G.nodes() that is ready once the nodes of done are
\* processed
FirstReady(E, done) ==
    LET k == CHOOSE j \in 1..Len(NodeOrder) :
                /\ NodeOrder[j] \notin done /\ Preds(E, NodeOrder[j]) \subseteq done
                /\ \A m \in 1..(j - 1) :
                     ~(NodeOrder[m] \notin done /\ Preds(E, NodeOrder[m]) \subseteq done)
    IN  NodeOrder[k]

\* the graph after the loop body ran over the nodes in that one order
RECURSIVE InFixedOrder(_, _)
InFixedOrder(G, done) ==
    IF done = Nodes THEN G
    ELSE LET n == FirstReady(G.edges, done)
             r == SolveNode(G, n, load_cols, treated)
         IN  InFixedOrder([node |-> r.node, edges |-> r.edges], done \cup {n})

RECURSIVE FixedOrder(_, _)
FixedOrder(E, done) ==
    IF Cardinality(done) = Cardinality(Nodes) THEN <<>>
    ELSE <<FirstReady(E, done)>> \o FixedOrder(E, done \cup {FirstReady(E, done)})

\* C10: after solve on an acyclic graph, the node and edge attributes are
\* those that one fixed topological order leaves, whichever topological
\* order the iteration took.
C10_OrderIndependent ==
    Returned => [node |-> node, edges |-> edges] = InFixedOrder(pre, {})

\* a solved network whose nodes were visited in another order than the
\* fixed one, two of them sources with volume and load
C10_Witness ==
    /\ Returned
    /\ order # FixedOrder(edges, {})
    /\ \E a, b \in Nodes :
         /\ a # b
         /\ InIdx(a) = {} /\ InIdx(b) = {}
         /\ OutIdx(a) # {} /\ OutIdx(b) # {}
         /\ Has(a, L1) /\ Has(b, L1)
         /\ RPos(node[a][L1]) /\ RPos(node[b][L1])

====
